---- MODULE Spec2Model ----
(***************************************************************************)
(* A model of mortgage_model.py: the MortgageSim engine (monthly           *)
(* amortization, yearly tax/deduction computation, investment compounding), *)
(* its run() loop, restart(), and the parameter mutations of the scenario   *)
(* sweep.                                                                   *)
(*                                                                          *)
(* Numbers.  The program computes in binary floating point.  Here every     *)
(* amount of money is an integer number of ticks, SCALE ticks to one unit   *)
(* of currency, and every arithmetic operation rounds its exact result to   *)
(* the nearest tick (RoundDiv), as a float operation rounds to the nearest  *)
(* representable value.  Rates are whole percents.  Yearly growth factors   *)
(* (1+rate)**year are fixed-point numbers with QY to one, the monthly       *)
(* compounding factor (1+r/12)**(12T) is a fixed-point number with Q to     *)
(* one.  The bracket walk of get_federal_tax multiplies ticks by whole      *)
(* percents, so its result is kept exact, in hundredths of a tick (PCT to   *)
(* one tick), and is rounded to ticks where step_year uses it.              *)
(*                                                                          *)
(* Exceptions.  An uncaught Python exception ends the script: fault names   *)
(* it, the state keeps whatever was assigned before the raise, and no       *)
(* operation is enabled afterwards.                                         *)
(***************************************************************************)
EXTENDS Integers, Sequences, FiniteSets, TLC

VARIABLES
    \* dataclass fields (src lines 9-20); money in currency units, rates in percent
    home_price, down_payment, sim_years, mortgage_years, initial_income,
    initial_living_expenses, initial_standard_deduction, income_increase_rate,
    inflation_rate, interest_rate, investment_return_rate,
    charitable_contribution_percent,
    \* attributes set by __post_init__ / restart (money in ticks)
    time_years, interest_payments, principal_payments, monthly_payments,
    loan_amounts, investment_balances, standard_deductions,
    charitable_deductions, salt_deductions, mortgage_interest_deductions,
    itemized_deductions, deductions, csv_rows, loan_amount, INIT_LOAN_AMOUNT,
    investment_balance,
    \* attribute monthly_payment: exists only once run() has assigned it
    monthly_payment_set, monthly_payment,
    \* control: where the script is, the index of run()'s loop, the exception raised
    pc, run_i, fault,
    \* the number of run() calls, and of direct step calls, made so far
    runs, direct_steps,
    \* history: no state-changing call since construction/restart();
    \* and the value of that flag when the current run() was entered
    fresh, run_fresh,
    \* inputs and results of one application of get_federal_tax (SpecTax only)
    probe

fixedParams == <<home_price, down_payment, sim_years, initial_income,
                 initial_living_expenses, initial_standard_deduction,
                 income_increase_rate, inflation_rate, interest_rate,
                 charitable_contribution_percent>>

sweptParams == <<mortgage_years, investment_return_rate>>

monthVars == <<interest_payments, principal_payments, monthly_payments,
               loan_amounts, loan_amount>>

yearVars == <<time_years, investment_balances, standard_deductions,
              charitable_deductions, salt_deductions,
              mortgage_interest_deductions, itemized_deductions, deductions,
              csv_rows, investment_balance>>

paymentVars == <<monthly_payment_set, monthly_payment>>

engineVars == <<fixedParams, sweptParams, monthVars, yearVars, paymentVars,
                INIT_LOAN_AMOUNT, pc, run_i, fault, runs, direct_steps, fresh,
                run_fresh>>

vars == <<engineVars, probe>>

----------------------------------------------------------------------------
\* Bounds of the model.

\* sim_years and mortgage_years are drawn from 1..MaxYears
MaxYears == 2
\* no step is started once time_years has reached MaxElapsed
MaxElapsed == MaxYears + 1
\* step_month() and step_year() are called from outside run() at most
\* MaxDirectSteps times in all
MaxDirectSteps == 2
\* run() is called at most MaxRuns times
MaxRuns == 2
\* get_federal_tax is probed for the years 0..MaxTaxYear
MaxTaxYear == 2

----------------------------------------------------------------------------
\* Number representation.

\* ticks per unit of currency
SCALE == 50
\* fixed-point one of a yearly growth factor (1+rate)**year
QY == 1000
\* fixed-point one of the monthly compounding factor (1+r/12)**(12T)
Q == 100000
\* a rate of 1.0 in percent
PCT == 100

\* a/b rounded to the nearest integer (halves up), b > 0
RoundDiv(a, b) == (a + (b \div 2)) \div b

Min(a, b) == IF a <= b THEN a ELSE b

Max(a, b) == IF a >= b THEN a ELSE b

RECURSIVE SumSeq(_)
SumSeq(s) == IF s = <<>> THEN 0 ELSE Head(s) + SumSeq(Tail(s))

\* s[-12:]
Last12(s) == IF Len(s) <= 12 THEN s ELSE SubSeq(s, Len(s) - 11, Len(s))

\* (1 + num/den)**n as a fixed-point number with q to one
RECURSIVE PowScaled(_, _, _, _)
PowScaled(num, den, n, q) ==
    IF n = 0 THEN q
    ELSE RoundDiv(PowScaled(num, den, n - 1, q) * (den + num), den)

\* (1+rate)**year, rate in percent
Growth(rate, year) == PowScaled(rate, PCT, year, QY)

\* units * g in ticks, units a whole number of currency units, g a growth factor
Grow(units, g) == RoundDiv(units * g, QY \div SCALE)

----------------------------------------------------------------------------
\* Tax and deduction functions.

\* np.inf, the upper threshold of the top bracket
Inf == -1

\* (income_level in currency units, tax_rate in percent)
initial_tax_brackets ==
    << [level |-> 22000,  rate |-> 10],
       [level |-> 89450,  rate |-> 12],
       [level |-> 190750, rate |-> 22],
       [level |-> 364200, rate |-> 24],
       [level |-> 462500, rate |-> 32],
       [level |-> 693750, rate |-> 35],
       [level |-> Inf,    rate |-> 37] >>

get_income(year) ==
    Grow(initial_income, Growth(income_increase_rate, year))

get_living_expenses(year) ==
    Grow(initial_living_expenses, Growth(inflation_rate, year))

get_standard_deduction(year) ==
    Grow(initial_standard_deduction, Growth(inflation_rate, year))

\* (income - 2425*2) * 0.0495
get_state_tax(income) ==
    LET exemptions == (2425 * 2) * SCALE
    IN  RoundDiv((income - exemptions) * 495, 10000)

get_salt_deduction(income, year) ==
    LET salt_cap == Grow(10000, Growth(inflation_rate, year))
    IN  Min(salt_cap, get_state_tax(income))

\* min(750e3, balance)/balance raises ZeroDivisionError when balance is 0
\* (the int 0 or the float 0.0)
mortgage_interest_deduction_raises(mortgage_balance) == mortgage_balance = 0

\* min(750e3, balance)/balance * interest, for balance # 0.  x/x is exactly 1.0
\* for every float x # 0; the capped branch needs a loan above 750,000 units.
get_mortgage_interest_deduction(mortgage_balance, annual_mortgage_interest) ==
    LET cap == 750000 * SCALE
    IN  IF Min(cap, mortgage_balance) = mortgage_balance
        THEN annual_mortgage_interest
        ELSE RoundDiv(RoundDiv(cap * Q, mortgage_balance)
                          * annual_mortgage_interest, Q)

\* thresholds in ticks; inf * growth = inf
get_current_tax_brackets(year) ==
    [i \in 1..Len(initial_tax_brackets) |->
        [level |-> IF initial_tax_brackets[i].level = Inf THEN Inf
                   ELSE Grow(initial_tax_brackets[i].level,
                             Growth(inflation_rate, year)),
         rate  |-> initial_tax_brackets[i].rate]]

\* income >= income_level, false for every income when the level is inf
AtLeast(income, level) == level # Inf /\ income >= level

\* the for loop of get_federal_tax from bracket i on; total_tax in hundredths
\* of a tick
RECURSIVE BracketWalk(_, _, _, _, _)
BracketWalk(income, brackets, i, prev_income_level, total_tax) ==
    IF i > Len(brackets) THEN total_tax
    ELSE IF AtLeast(income, brackets[i].level)
         THEN BracketWalk(income, brackets, i + 1, brackets[i].level,
                  total_tax + (brackets[i].level - prev_income_level)
                                  * brackets[i].rate)
         ELSE total_tax + (income - prev_income_level) * brackets[i].rate

\* a flat-rate-on-total lookup: the whole income at the rate of its bracket
RECURSIVE FlatLookup(_, _, _)
FlatLookup(income, brackets, i) ==
    IF i > Len(brackets) THEN 0
    ELSE IF AtLeast(income, brackets[i].level)
         THEN FlatLookup(income, brackets, i + 1)
         ELSE income * brackets[i].rate

get_federal_tax_flat(income, year) ==
    FlatLookup(income, get_current_tax_brackets(year), 1)

\* income in ticks; the result in hundredths of a tick (exact)
get_federal_tax(income, year) ==
    BracketWalk(income, get_current_tax_brackets(year), 1, 0, 0)

----------------------------------------------------------------------------
\* Amortization.

\* the right-hand side of run()'s assignment to monthly_payment:
\* loan * (r/12 * (1+r/12)**(12T)) / ((1+r/12)**(12T) - 1)
annuity_denominator(rate, years) == PowScaled(rate, 12 * PCT, years * 12, Q) - Q

annuity_payment(loan, rate, years) ==
    LET pow      == PowScaled(rate, 12 * PCT, years * 12, Q)
        rate_pow == RoundDiv(rate * pow, 12 * PCT)
    IN  RoundDiv(loan * rate_pow, pow - Q)

\* the amortization attributes step_month reads and writes
AmortState == [loan_amount        |-> loan_amount,
               interest_payments  |-> interest_payments,
               principal_payments |-> principal_payments,
               monthly_payments   |-> monthly_payments,
               loan_amounts       |-> loan_amounts]

\* step_month reads self.monthly_payment inside the term: AttributeError when
\* run() has never assigned it (nothing has been written at that point)
step_month_raises == time_years < mortgage_years /\ ~monthly_payment_set

\* step_month whose branch after the term keeps paying
step_month_always_pays(s) ==
    LET interest_payment  == RoundDiv(interest_rate * s.loan_amount, 12 * PCT)
        principal_payment == monthly_payment - interest_payment
        new_loan          == s.loan_amount - principal_payment
    IN  [loan_amount        |-> new_loan,
         interest_payments  |-> Append(s.interest_payments, interest_payment),
         principal_payments |-> Append(s.principal_payments, principal_payment),
         monthly_payments   |-> Append(s.monthly_payments, monthly_payment),
         loan_amounts       |-> Append(s.loan_amounts, new_loan)]

\* step_month that charges a month's interest at r/10
step_month_wrong_rate(s) ==
    IF time_years < mortgage_years
    THEN LET interest_payment  == RoundDiv(interest_rate * s.loan_amount, 10 * PCT)
             principal_payment == monthly_payment - interest_payment
             new_loan          == s.loan_amount - principal_payment
         IN  [loan_amount        |-> new_loan,
              interest_payments  |-> Append(s.interest_payments, interest_payment),
              principal_payments |-> Append(s.principal_payments, principal_payment),
              monthly_payments   |-> Append(s.monthly_payments, monthly_payment),
              loan_amounts       |-> Append(s.loan_amounts, new_loan)]
    ELSE [loan_amount        |-> s.loan_amount,
          interest_payments  |-> Append(s.interest_payments, 0),
          principal_payments |-> Append(s.principal_payments, 0),
          monthly_payments   |-> Append(s.monthly_payments, 0),
          loan_amounts       |-> Append(s.loan_amounts, s.loan_amount)]

\* one step_month that does not raise, on amortization state s
step_month(s) ==
    IF time_years < mortgage_years
    THEN LET interest_payment  == RoundDiv(interest_rate * s.loan_amount, 12 * PCT)
             principal_payment == monthly_payment - interest_payment
             new_loan          == s.loan_amount - principal_payment
         IN  [loan_amount        |-> new_loan,
              interest_payments  |-> Append(s.interest_payments, interest_payment),
              principal_payments |-> Append(s.principal_payments, principal_payment),
              monthly_payments   |-> Append(s.monthly_payments, monthly_payment),
              loan_amounts       |-> Append(s.loan_amounts, new_loan)]
    ELSE [loan_amount        |-> s.loan_amount,
          interest_payments  |-> Append(s.interest_payments, 0),
          principal_payments |-> Append(s.principal_payments, 0),
          monthly_payments   |-> Append(s.monthly_payments, 0),
          loan_amounts       |-> Append(s.loan_amounts, s.loan_amount)]

\* for _ in range(k): self.step_month()
RECURSIVE step_months(_, _)
step_months(s, k) == IF k = 0 THEN s ELSE step_months(step_month(s), k - 1)

----------------------------------------------------------------------------
\* The yearly step.

\* what step_year computes after its twelve months, s the amortization state
\* they leave; every amount in ticks
year_record(s) ==
    LET annual_mortgage_interest == SumSeq(Last12(s.interest_payments))
        annual_mortgage_payments == SumSeq(Last12(s.monthly_payments))
        annual_income        == get_income(time_years)
        standard_deduction   == get_standard_deduction(time_years)
        charitable_deduction ==
            RoundDiv(annual_income * charitable_contribution_percent, PCT)
        salt_deduction       == get_salt_deduction(annual_income, time_years)
        mortgage_interest_deduction ==
            get_mortgage_interest_deduction(s.loan_amount, annual_mortgage_interest)
        itemized_deduction   ==
            charitable_deduction + salt_deduction + mortgage_interest_deduction
        deduction            == Max(standard_deduction, itemized_deduction)
        state_tax            == get_state_tax(annual_income)
        federal_tax          ==
            RoundDiv(get_federal_tax(annual_income - deduction, time_years), PCT)
        living_expenses      == get_living_expenses(time_years)
        investment_amount    ==
            annual_income - living_expenses - state_tax - federal_tax
                - annual_mortgage_payments
        new_balance          ==
            RoundDiv(investment_balance * (PCT + investment_return_rate), PCT)
                + investment_amount
    IN  [TimeYears                   |-> time_years,
         LoanBalance                 |-> s.loan_amount,
         Income                      |-> annual_income,
         AnnualTotalMortgagePayments |-> annual_mortgage_payments,
         LivingExpenses              |-> living_expenses,
         StateTax                    |-> state_tax,
         StandardDeduction           |-> standard_deduction,
         CharitableDeduction         |-> charitable_deduction,
         SALTDeduction               |-> salt_deduction,
         MortgageInterestDeduction   |-> mortgage_interest_deduction,
         ItemizedDeduction           |-> itemized_deduction,
         PreferredDeduction          |-> deduction,
         FederalTax                  |-> federal_tax,
         InvestmentAmount            |-> investment_amount,
         InvestmentBalance           |-> new_balance]

\* the dict step_year appends to csv_rows
csv_row(r) ==
    [TimeYears                   |-> r.TimeYears,
     LoanBalance                 |-> r.LoanBalance,
     Income                      |-> r.Income,
     AnnualTotalMortgagePayments |-> r.AnnualTotalMortgagePayments,
     LivingExpenses              |-> r.LivingExpenses,
     StateTax                    |-> r.StateTax,
     StandardDeduction           |-> r.StandardDeduction,
     CharitableDeduction         |-> r.CharitableDeduction,
     SALTDeduction               |-> r.SALTDeduction,
     MortgageInterestDeduction   |-> r.MortgageInterestDeduction,
     PreferredDeduction          |-> r.PreferredDeduction,
     FederalTax                  |-> r.FederalTax,
     InvestmentAmount            |-> r.InvestmentAmount,
     InvestmentBalance           |-> r.InvestmentBalance]

\* the body of step_year: twelve months, then the year's record, or the
\* exception that ends it
step_year ==
    IF step_month_raises
    THEN /\ fault' = "AttributeError"
         /\ UNCHANGED <<monthVars, yearVars>>
    ELSE LET s == step_months(AmortState, 12)
         IN  /\ loan_amount' = s.loan_amount
             /\ interest_payments' = s.interest_payments
             /\ principal_payments' = s.principal_payments
             /\ monthly_payments' = s.monthly_payments
             /\ loan_amounts' = s.loan_amounts
             /\ IF mortgage_interest_deduction_raises(s.loan_amount)
                THEN /\ fault' = "ZeroDivisionError"
                     /\ UNCHANGED yearVars
                ELSE LET r == year_record(s)
                     IN  /\ investment_balance' = r.InvestmentBalance
                         /\ standard_deductions' =
                                Append(standard_deductions, r.StandardDeduction)
                         /\ charitable_deductions' =
                                Append(charitable_deductions, r.CharitableDeduction)
                         /\ salt_deductions' =
                                Append(salt_deductions, r.SALTDeduction)
                         /\ mortgage_interest_deductions' =
                                Append(mortgage_interest_deductions,
                                       r.MortgageInterestDeduction)
                         /\ itemized_deductions' =
                                Append(itemized_deductions, r.ItemizedDeduction)
                         /\ deductions' = Append(deductions, r.PreferredDeduction)
                         /\ investment_balances' =
                                Append(investment_balances, r.InvestmentBalance)
                         /\ csv_rows' = Append(csv_rows, csv_row(r))
                         /\ time_years' = time_years + 1
                         /\ fault' = "none"

----------------------------------------------------------------------------
\* The scenarios the engine is constructed with, and the values the sweep sets.

\* down_payment <= home_price; the full down payment leaves no loan
HomePrices == {200}

DownPayments == {0, 100, 200}

InterestRates == {0, 6}

\* the lower income is below the standard deduction and the living expenses
InitialIncomes == {20, 30000}

ReturnRates == {5}

NoProbe == [a |-> 0, b |-> 0, year |-> 0, applied |-> FALSE,
            tax_a |-> 0, tax_b |-> 0]

\* the histories and counters as __post_init__ and restart() set them
Cleared ==
    /\ time_years = 0
    /\ interest_payments = <<>>
    /\ principal_payments = <<>>
    /\ monthly_payments = <<>>
    /\ loan_amounts = <<>>
    /\ investment_balances = <<>>
    /\ standard_deductions = <<>>
    /\ charitable_deductions = <<>>
    /\ salt_deductions = <<>>
    /\ mortgage_interest_deductions = <<>>
    /\ itemized_deductions = <<>>
    /\ deductions = <<>>
    /\ csv_rows = <<>>
    /\ investment_balance = 0

\* MortgageSim(...): the dataclass fields, then __post_init__
Construct ==
    /\ home_price \in HomePrices
    /\ down_payment \in {d \in DownPayments : d <= home_price}
    /\ sim_years \in 1..MaxYears
    /\ mortgage_years \in 1..MaxYears
    /\ initial_income \in InitialIncomes
    /\ initial_living_expenses = 100
    /\ initial_standard_deduction = 30
    /\ income_increase_rate = 2
    /\ inflation_rate = 2
    /\ interest_rate \in InterestRates
    /\ investment_return_rate = 3
    /\ charitable_contribution_percent = 5
    /\ Cleared
    /\ loan_amount = (home_price - down_payment) * SCALE
    /\ INIT_LOAN_AMOUNT = loan_amount
    /\ monthly_payment_set = FALSE
    /\ monthly_payment = 0
    /\ pc = "idle"
    /\ run_i = 0
    /\ fault = "none"
    /\ runs = 0
    /\ direct_steps = 0
    /\ fresh = TRUE
    /\ run_fresh = FALSE

Init == Construct /\ probe = NoProbe

\* the script is between two calls and no exception has ended it
Idle == pc = "idle" /\ fault = "none"

\* restart() that leaves csv_rows as it is
RestartKeepsRows ==
    /\ Idle
    /\ time_years' = 0
    /\ interest_payments' = <<>>
    /\ principal_payments' = <<>>
    /\ monthly_payments' = <<>>
    /\ loan_amounts' = <<>>
    /\ investment_balances' = <<>>
    /\ standard_deductions' = <<>>
    /\ charitable_deductions' = <<>>
    /\ salt_deductions' = <<>>
    /\ mortgage_interest_deductions' = <<>>
    /\ itemized_deductions' = <<>>
    /\ deductions' = <<>>
    /\ investment_balance' = 0
    /\ loan_amount' = INIT_LOAN_AMOUNT
    /\ fresh' = TRUE
    /\ UNCHANGED <<fixedParams, sweptParams, paymentVars, INIT_LOAN_AMOUNT,
                   csv_rows, pc, run_i, fault, run_fresh, runs, direct_steps, probe>>

\* restart() that leaves loan_amount as it is
RestartKeepsLoan ==
    /\ Idle
    /\ time_years' = 0
    /\ interest_payments' = <<>>
    /\ principal_payments' = <<>>
    /\ monthly_payments' = <<>>
    /\ loan_amounts' = <<>>
    /\ investment_balances' = <<>>
    /\ standard_deductions' = <<>>
    /\ charitable_deductions' = <<>>
    /\ salt_deductions' = <<>>
    /\ mortgage_interest_deductions' = <<>>
    /\ itemized_deductions' = <<>>
    /\ deductions' = <<>>
    /\ investment_balance' = 0
    /\ csv_rows' = <<>>
    /\ fresh' = TRUE
    /\ UNCHANGED <<fixedParams, sweptParams, paymentVars, INIT_LOAN_AMOUNT,
                   loan_amount, pc, run_i, fault, run_fresh, runs, direct_steps,
                   probe>>

\* sim.restart()
Restart ==
    /\ Idle
    /\ time_years' = 0
    /\ interest_payments' = <<>>
    /\ principal_payments' = <<>>
    /\ monthly_payments' = <<>>
    /\ loan_amounts' = <<>>
    /\ investment_balances' = <<>>
    /\ standard_deductions' = <<>>
    /\ charitable_deductions' = <<>>
    /\ salt_deductions' = <<>>
    /\ mortgage_interest_deductions' = <<>>
    /\ itemized_deductions' = <<>>
    /\ deductions' = <<>>
    /\ csv_rows' = <<>>
    /\ investment_balance' = 0
    /\ loan_amount' = INIT_LOAN_AMOUNT
    /\ fresh' = TRUE
    /\ UNCHANGED <<fixedParams, sweptParams, paymentVars, INIT_LOAN_AMOUNT,
                   pc, run_i, fault, run_fresh, runs, direct_steps, probe>>

\* sim.mortgage_years = mortgage_length; the sweep sets it between restart()
\* and run()
SetMortgageYears ==
    /\ Idle
    /\ Cleared
    /\ \E mortgage_length \in 1..MaxYears : mortgage_years' = mortgage_length
    /\ UNCHANGED <<fixedParams, investment_return_rate, monthVars, yearVars,
                   paymentVars, INIT_LOAN_AMOUNT, pc, run_i, fault,
                   fresh, run_fresh, runs, direct_steps, probe>>

\* sim.investment_return_rate = arr; the sweep sets it between restart()
\* and run()
SetInvestmentReturnRate ==
    /\ Idle
    /\ Cleared
    /\ \E arr \in ReturnRates : investment_return_rate' = arr
    /\ UNCHANGED <<fixedParams, mortgage_years, monthVars, yearVars,
                   paymentVars, INIT_LOAN_AMOUNT, pc, run_i, fault,
                   fresh, run_fresh, runs, direct_steps, probe>>

\* a call of step_month() from outside run()
StepMonth ==
    /\ Idle
    /\ direct_steps < MaxDirectSteps
    /\ direct_steps' = direct_steps + 1
    /\ IF step_month_raises
       THEN /\ fault' = "AttributeError"
            /\ UNCHANGED monthVars
       ELSE LET s == step_month(AmortState)
            IN  /\ loan_amount' = s.loan_amount
                /\ interest_payments' = s.interest_payments
                /\ principal_payments' = s.principal_payments
                /\ monthly_payments' = s.monthly_payments
                /\ loan_amounts' = s.loan_amounts
                /\ fault' = "none"
    /\ fresh' = FALSE
    /\ UNCHANGED <<fixedParams, sweptParams, yearVars, paymentVars,
                   INIT_LOAN_AMOUNT, pc, run_i, run_fresh, runs, probe>>

\* a call of step_year() from outside run()
StepYear ==
    /\ Idle
    /\ time_years < MaxElapsed
    /\ direct_steps < MaxDirectSteps
    /\ direct_steps' = direct_steps + 1
    /\ step_year
    /\ fresh' = FALSE
    /\ UNCHANGED <<fixedParams, sweptParams, paymentVars, INIT_LOAN_AMOUNT,
                   pc, run_i, run_fresh, runs, probe>>

\* sim.run(), up to its loop: the monthly payment from the current loan_amount
Run ==
    /\ Idle
    /\ time_years + sim_years <= MaxElapsed
    /\ runs < MaxRuns
    /\ runs' = runs + 1
    /\ pc' = "run"
    /\ run_i' = 0
    /\ run_fresh' = fresh
    /\ fresh' = FALSE
    /\ IF annuity_denominator(interest_rate, mortgage_years) = 0
       THEN /\ fault' = "ZeroDivisionError"
            /\ UNCHANGED paymentVars
       ELSE /\ monthly_payment_set' = TRUE
            /\ monthly_payment' =
                   annuity_payment(loan_amount, interest_rate, mortgage_years)
            /\ fault' = "none"
    /\ UNCHANGED <<fixedParams, sweptParams, monthVars, yearVars,
                   INIT_LOAN_AMOUNT, direct_steps, probe>>

\* one pass of run()'s loop: for _ in range(self.sim_years): self.step_year()
RunStepYear ==
    /\ pc = "run"
    /\ fault = "none"
    /\ run_i < sim_years
    /\ step_year
    /\ run_i' = IF fault' = "none" THEN run_i + 1 ELSE run_i
    /\ UNCHANGED <<fixedParams, sweptParams, paymentVars, INIT_LOAN_AMOUNT,
                   pc, fresh, run_fresh, runs, direct_steps, probe>>

\* run() after its loop: csv_rows is written to the csv file, which the
\* program never reads back, and run() returns; its locals are gone
RunFinish ==
    /\ pc = "run"
    /\ fault = "none"
    /\ run_i = sim_years
    /\ pc' = "idle"
    /\ run_i' = 0
    /\ run_fresh' = FALSE
    /\ UNCHANGED <<fixedParams, sweptParams, monthVars, yearVars, paymentVars,
                   INIT_LOAN_AMOUNT, fault, fresh, runs,
                   direct_steps, probe>>

Next ==
    \/ Restart
    \/ SetMortgageYears
    \/ SetInvestmentReturnRate
    \/ StepMonth
    \/ StepYear
    \/ Run
    \/ RunStepYear
    \/ RunFinish

Spec == Init /\ [][Next]_vars

----------------------------------------------------------------------------
\* The amortization alone: run() on engines constructed over a wider range of
\* principals and rates, with a horizon that covers every term.

AmortPrincipals == {60, 100, 137, 200, 300}

AmortRates == {3, 6, 12, 24}

InitAmort ==
    /\ home_price \in AmortPrincipals
    /\ down_payment = 0
    /\ sim_years = MaxYears
    /\ mortgage_years \in 1..MaxYears
    /\ initial_income = 30000
    /\ initial_living_expenses = 100
    /\ initial_standard_deduction = 30
    /\ income_increase_rate = 2
    /\ inflation_rate = 2
    /\ interest_rate \in AmortRates
    /\ investment_return_rate = 3
    /\ charitable_contribution_percent = 5
    /\ Cleared
    /\ loan_amount = (home_price - down_payment) * SCALE
    /\ INIT_LOAN_AMOUNT = loan_amount
    /\ monthly_payment_set = FALSE
    /\ monthly_payment = 0
    /\ pc = "idle"
    /\ run_i = 0
    /\ fault = "none"
    /\ runs = 0
    /\ direct_steps = 0
    /\ fresh = TRUE
    /\ run_fresh = FALSE
    /\ probe = NoProbe

NextAmort == Run \/ RunStepYear \/ RunFinish

SpecAmort == InitAmort /\ [][NextAmort]_vars

----------------------------------------------------------------------------
\* get_federal_tax alone: applied to two taxable incomes in one year.

\* taxable incomes in ticks: negative, zero, at and around the thresholds of
\* the brackets, above the top threshold
TaxIncomes == {-50000, 0, 1, 1099999, 1100000, 1122000, 4472500, 9537501,
               18210000, 23125000, 34687500, 36000000, 40000000}

InitTax ==
    /\ Construct
    /\ down_payment = 0
    /\ sim_years = 1
    /\ mortgage_years = 1
    /\ interest_rate = 6
    /\ initial_income = 30000
    /\ \E a \in TaxIncomes, b \in TaxIncomes, year \in 0..MaxTaxYear :
           probe = [a |-> a, b |-> b, year |-> year, applied |-> FALSE,
                    tax_a |-> 0, tax_b |-> 0]

ApplyFederalTax ==
    /\ ~probe.applied
    /\ probe' = [probe EXCEPT !.applied = TRUE,
                              !.tax_a = get_federal_tax(probe.a, probe.year),
                              !.tax_b = get_federal_tax(probe.b, probe.year)]
    /\ UNCHANGED engineVars

NextTax == ApplyFederalTax

SpecTax == InitTax /\ [][NextTax]_vars

----------------------------------------------------------------------------
\* Properties.

\* run() was entered on an engine untouched since construction or restart()
FreshRun == pc = "run" /\ run_fresh

\* one unit of currency
OneUnit == SCALE

Abs(x) == IF x < 0 THEN -x ELSE x

\* C1: run() entered on a freshly constructed or restarted engine executes
\* step_year exactly sim_years times without raising, and leaves time_years =
\* sim_years and sim_years rows with TimeYears 0..sim_years-1, also for a zero
\* loan.  Stated here for the interest rates above 0 only, which is enough to
\* refute it; at rate 0 run() raises before its loop (C6).
C1_RunCompletesAllYears ==
    (FreshRun /\ interest_rate > 0) =>
        /\ fault = "none"
        /\ run_i = sim_years =>
               /\ time_years = sim_years
               /\ Len(csv_rows) = sim_years
               /\ \A k \in 1..sim_years : csv_rows[k].TimeYears = k - 1

\* C2: restart() leaves the loan balance at the starting principal (home price
\* minus down payment), the investment balance and the elapsed years at 0,
\* every history sequence empty, and every scenario parameter as it was.
C2_RestartRestores ==
    [][Restart =>
         /\ Cleared'
         /\ loan_amount' = (home_price - down_payment) * SCALE
         /\ fixedParams' = fixedParams
         /\ sweptParams' = sweptParams]_vars

\* a restart() after a run: the engine is cleared again, the payment stays
C2_Witness ==
    /\ fresh
    /\ runs >= 1
    /\ Cleared
    /\ loan_amount = INIT_LOAN_AMOUNT
    /\ monthly_payment_set

\* C3: for a positive principal, a rate above 0 and a term of T years, with the
\* monthly payment run() computed, the principal payments of the first 12T
\* months sum to the principal within one unit of currency, and the loan
\* balance after month 12T is at most one unit.
C3_AmortizationRetiresPrincipal ==
    (/\ FreshRun
     /\ INIT_LOAN_AMOUNT > 0
     /\ interest_rate > 0
     /\ Len(principal_payments) >= 12 * mortgage_years) =>
        LET n == 12 * mortgage_years
        IN  /\ Abs(SumSeq(SubSeq(principal_payments, 1, n)) - INIT_LOAN_AMOUNT)
                   <= OneUnit
            /\ loan_amounts[n] <= OneUnit

\* the last month of the longest term has been stepped
C3_Witness ==
    /\ FreshRun
    /\ INIT_LOAN_AMOUNT > 0
    /\ interest_rate > 0
    /\ mortgage_years = MaxYears
    /\ Len(principal_payments) = 12 * mortgage_years
    /\ monthly_payments[12 * mortgage_years] = monthly_payment
    /\ monthly_payment > 0

\* C4: in every year whose applied deduction exceeds the income, the federal
\* tax recorded is 0.
C4_NegativeTaxableIncomeTaxedZero ==
    \A k \in 1..Len(csv_rows) :
        csv_rows[k].Income - csv_rows[k].PreferredDeduction < 0 =>
            csv_rows[k].FederalTax = 0

\* C5: a yearly step whose twelve months end with a loan balance of exactly
\* zero records a mortgage-interest deduction of 0 and does not raise.
C5_ZeroBalanceDeductsZero ==
    [][(Len(loan_amounts') = Len(loan_amounts) + 12 /\ loan_amount' = 0) =>
         /\ fault' = "none"
         /\ Len(mortgage_interest_deductions')
                = Len(mortgage_interest_deductions) + 1
         /\ mortgage_interest_deductions'[Len(mortgage_interest_deductions')]
                = 0]_vars

\* C6: with an interest rate of 0, run() does not raise, the monthly payment
\* is P/(12T), and every month of the term lowers the loan balance by it.
C6_ZeroRatePaysLinearly ==
    (FreshRun /\ interest_rate = 0) =>
        /\ fault = "none"
        /\ monthly_payment = RoundDiv(INIT_LOAN_AMOUNT, 12 * mortgage_years)
        /\ \A k \in 1..Min(Len(principal_payments), 12 * mortgage_years) :
               principal_payments[k] = monthly_payment

\* C7: for one year and taxable incomes a <= b, the federal tax of b exceeds
\* that of a by at least 0 and at most 0.37 * (b - a).
C7_FederalTaxMonotoneBoundedSlope ==
    (probe.applied /\ probe.a <= probe.b) =>
        /\ 0 <= probe.tax_b - probe.tax_a
        /\ probe.tax_b - probe.tax_a <= 37 * (probe.b - probe.a)

\* a negative income against one above the top threshold of a later year
C7_Witness ==
    /\ probe.applied
    /\ probe.a < 0
    /\ probe.b > 34687500
    /\ probe.year > 0
    /\ probe.tax_a < 0
    /\ probe.tax_b > 0

C9_AfterTermMonthsAreZero ==
    [][(time_years >= mortgage_years /\ Len(loan_amounts') > Len(loan_amounts)) =>
         /\ loan_amount' = loan_amount
         /\ Len(interest_payments') = Len(loan_amounts')
         /\ Len(principal_payments') = Len(loan_amounts')
         /\ Len(monthly_payments') = Len(loan_amounts')
         /\ \A k \in (Len(loan_amounts) + 1)..Len(loan_amounts') :
                /\ interest_payments'[k] = 0
                /\ principal_payments'[k] = 0
                /\ monthly_payments'[k] = 0
                /\ loan_amounts'[k] = loan_amount
         /\ Len(csv_rows') > Len(csv_rows) =>
                /\ csv_rows'[Len(csv_rows')].AnnualTotalMortgagePayments = 0
                /\ SumSeq(Last12(interest_payments')) = 0]_vars

\* a year after the term has been stepped inside a run that paid in the term
C9_Witness ==
    /\ FreshRun
    /\ fault = "none"
    /\ time_years > mortgage_years
    /\ monthly_payments[1] > 0
    /\ monthly_payments[12 * time_years] = 0

\* C10: a direct step_month()/step_year() on an engine on which run() has not
\* computed the payment since construction or restart() raises at once.
C10_StepBeforeSetupRaises ==
    [][(fresh /\ time_years < mortgage_years
              /\ direct_steps' = direct_steps + 1) =>
         fault' = "AttributeError"]_vars

====
